---- MODULE Spec2Model ----
(***************************************************************************)
(* Query Cache Flow: the key-management utility of src/queries/index.ts    *)
(* (listed in the installation guide, src/unnamed/part_005 lines 235-400): *)
(* createQueryGroupCRUD, resolveKey, invalidateQueriesForKeys,             *)
(* cancelQueriesForKeys and inyectKeysToQueries, running against the       *)
(* TanStack Query v5 QueryClient (part_005 line 193).                      *)
(*                                                                         *)
(* JavaScript values are tagged records, because the code dispatches on    *)
(* typeof / Array.isArray / truthiness:                                    *)
(*   Str(s)      a string                                                  *)
(*   Undefined, Null                                                       *)
(*   Key(k)      a plain object handled by value (a QueryKey or a data     *)
(*               item); k is the TLA+ record of its fields, strings but    *)
(*               for the fields named in ObjectFields                      *)
(*   Arr(items)  an array                                                  *)
(*   Ref(a)      a reference to the mutable object stored at heap[a]       *)
(*   functions   [t |-> "function", fn |-> <which closure>, <captures>]    *)
(***************************************************************************)
EXTENDS Integers, Sequences, FiniteSets, TLC

VARIABLES
  entity,      \* the entity name the application passed to the factory
  heap,        \* the objects of the program: address -> fields
  group,       \* the application's variable holding the query group
  original,    \* a second holder of the reference the factory returned
  cache,       \* queryClient's cache: QueryKey -> data
  last,        \* the last call made to the library, its arguments and result
  nInject,     \* number of inyectKeysToQueries calls made
  engineCalls, \* calls received by queryClient.invalidateQueries / cancelQueries
  pc,          \* position of the onMutate callback
  inflight,    \* fetches in flight in the engine: QueryKey -> when they started
  cancelling,  \* cancellations the engine has been asked for and not completed
  writer,      \* who wrote the cache slot of the optimistic update last
  stack        \* the frames of the calls of process that have not returned

vars == <<entity, heap, group, original, cache, last, nInject,
          engineCalls, pc, inflight, cancelling, writer, stack>>

(***************************************************************************)
(* Bounds                                                                  *)
(***************************************************************************)
MaxInject == 3   \* inyectKeysToQueries calls on one group
MaxList == 2     \* items create.normalize may put in the list cache
MaxKeys == 2     \* length of the keys array of a batch call
MaxStack == 5    \* frames the call stack holds before the engine raises RangeError

Entities == {"accounts", "users"}
Ids == {"1", "2"}
Names == {"old", "new"}

\* the extra objects callers inject: an auth flag, a tenant id, and fields
\* the keys already have
Extras ==
  { [auth |-> "true"],
    [auth |-> "false"],
    [tenantId |-> "42"],
    [entity |-> "shared", id |-> "9"] }

\* results of mutations / fetches: objects exposing an id
Items == [id : Ids, name : Names]

(***************************************************************************)
(* JavaScript values                                                       *)
(***************************************************************************)
Str(s) == [t |-> "string", s |-> s]
Undefined == [t |-> "undefined"]
Null == [t |-> "null"]
Key(k) == [t |-> "object", k |-> k]
Arr(items) == [t |-> "array", items |-> items]
Ref(a) == [t |-> "ref", a |-> a]

IsFunction(v) == v.t = "function"
IsArray(v) == v.t = "array"
\* Boolean(v) for the values above (no empty string, 0 or NaN among them)
Truthy(v) == v.t \notin {"undefined", "null"}

\* a mutant of Spread: the fields the key already has win
SpreadKeyWins(key, extra) ==
  [f \in DOMAIN key \cup DOMAIN extra |->
     IF f \in DOMAIN key THEN key[f] ELSE extra[f]]

\* { ...key, ...extra } : extra's fields win
Spread(key, extra) ==
  [f \in DOMAIN key \cup DOMAIN extra |->
     IF f \in DOMAIN extra THEN extra[f] ELSE key[f]]

(***************************************************************************)
(* Closures                                                                *)
(***************************************************************************)
\* (id: T) => ({ entity: entityName, method, id })
queryKeyFn(entityName, method) ==
  [t |-> "function", fn |-> "queryKey", entity |-> entityName, method |-> method]

\* (id: T) => [{ entity: entityName, id }, { entity: entityName, method: 'list' }]
invalidatesFn(entityName) ==
  [t |-> "function", fn |-> "invalidates", entity |-> entityName]

\* the normalize callback of operation op, closing over the list and detail
\* operation objects of its group
normalizeFn(op, list, detail) ==
  [t |-> "function", fn |-> "normalize", op |-> op, list |-> list, detail |-> detail]

\* (...args) => { const key = originalFn(...args); ... }, closing over extra
injectedFn(originalFn, extra) ==
  [t |-> "function", fn |-> "injected", originalFn |-> originalFn, extra |-> extra]

\* () => value : a queryKey function an application wrote itself
returnsFn(value) == [t |-> "function", fn |-> "returns", value |-> value]

\* (query) => ({ ...crud.list.queryKey, query }), crud.list being the object
\* at address list
pagedFn(list) == [t |-> "function", fn |-> "paged", list |-> list]

Arg(args, i) == IF i <= Len(args) THEN args[i] ELSE Undefined

\* a key object literal { entity, method, id }: a field whose value is
\* undefined does not take part in the key's hash
KeyWithId(k, id) ==
  IF id.t = "string" THEN Key(Spread(k, [id |-> id.s])) ELSE Key(k)

\* a mutant of queryKeyBody: the method of `detail` pasted into every key
queryKeyBodyPasted(entityName, method, id) ==
  KeyWithId([entity |-> entityName, method |-> "detail"], id)

\* a mutant of queryKeyBody: the key has no entity field
queryKeyBodyNoEntity(entityName, method, id) ==
  KeyWithId([method |-> method], id)

\* the body ({ entity: entityName, method, id }) of a queryKey function
queryKeyBody(entityName, method, id) ==
  KeyWithId([entity |-> entityName, method |-> method], id)

\* a mutant of invalidatesBody: the two keys in the other order
invalidatesBodySwapped(entityName, id) ==
  Arr(<< Key([entity |-> entityName, method |-> "list"]),
         KeyWithId([entity |-> entityName], id) >>)

\* the body [{ entity: entityName, id }, { entity: entityName, method: 'list' }]
\* of an invalidates function
invalidatesBody(entityName, id) ==
  Arr(<< KeyWithId([entity |-> entityName], id),
         Key([entity |-> entityName, method |-> "list"]) >>)

\* a mutant of injectedBody: the key originalFn returned is passed on as it is
injectedBodyKeyOnly(key, extra) == key

\* a mutant of injectedBody: the returned key holds extra's fields only
injectedBodyExtraOnly(key, extra) ==
  IF key.t = "object" THEN Key(extra) ELSE key

\* a mutant of injectedBody: the test !Array.isArray(key) is missing, and an
\* array is spread into an object with extra's fields
injectedBodyArraysToo(key, extra) ==
  IF key.t = "object" THEN Key(Spread(key.k, extra))
  ELSE IF key.t = "array" THEN Key(extra)
  ELSE key

\* the body ({ ...crud.list.queryKey, query }) of a paginated list key
\* function; query is given by its page, and an undefined query does not take
\* part in the key's hash
pagedBody(listKey, query) ==
  IF query.t = "string" THEN Key(Spread(listKey.k, [query |-> query.s])) ELSE listKey

\* the body of the function inyectKeysToQueries puts in place of originalFn,
\* key being what originalFn(...args) returned and extra the extra object
injectedBody(key, extra) ==
  IF key.t = "object" THEN Key(Spread(key.k, extra)) ELSE key

RECURSIVE Call(_, _, _)
\* f(...args) evaluated in heap h
Call(h, f, args) ==
  CASE f.fn = "queryKey" -> queryKeyBody(f.entity, f.method, Arg(args, 1))
    [] f.fn = "invalidates" -> invalidatesBody(f.entity, Arg(args, 1))
    [] f.fn = "injected" -> injectedBody(Call(h, f.originalFn, args), h[f.extra])
    [] f.fn = "returns" -> f.value
    [] f.fn = "paged" -> pagedBody(h[f.list].queryKey, Arg(args, 1))

\* resolveKey(key, ...args)
resolveKey(h, key, args) ==
  IF IsFunction(key) THEN Call(h, key, args) ELSE key

(***************************************************************************)
(* createQueryGroupCRUD                                                    *)
(***************************************************************************)
\* The seven objects createQueryGroupCRUD(entityName) allocates, at the
\* addresses base+1 .. base+7: the six operations in the order the code
\* declares them, then the returned object { all, list, detail, create,
\* update, remove }.
createQueryGroupCRUD(entityName, base) ==
  LET all == base + 1
      list == base + 2
      detail == base + 3
      create == base + 4
      update == base + 5
      remove == base + 6
  IN << [queryKey |-> Key([entity |-> entityName])],
        [queryKey |-> Key([entity |-> entityName, method |-> "list"]),
         type |-> Str("query")],
        [queryKey |-> queryKeyFn(entityName, "detail"),
         type |-> Str("query"),
         normalize |-> normalizeFn("detail", list, detail)],
        [queryKey |-> Key([entity |-> entityName, method |-> "create"]),
         invalidates |-> Key([entity |-> entityName, method |-> "list"]),
         type |-> Str("mutation"),
         normalize |-> normalizeFn("create", list, detail)],
        [queryKey |-> queryKeyFn(entityName, "update"),
         invalidates |-> invalidatesFn(entityName),
         type |-> Str("mutation"),
         normalize |-> normalizeFn("update", list, detail)],
        [queryKey |-> queryKeyFn(entityName, "remove"),
         invalidates |-> invalidatesFn(entityName),
         type |-> Str("mutation"),
         normalize |-> normalizeFn("remove", list, detail)],
        [all |-> Ref(all), list |-> Ref(list), detail |-> Ref(detail),
         create |-> Ref(create), update |-> Ref(update), remove |-> Ref(remove)] >>

\* the address of the object the factory returns
GroupAddr(base) == base + 7

\* g.<op> : the operation object of group g
Op(h, g, name) == h[h[g.a][name].a]

\* g.<op>.queryKey for a static key, g.<op>.queryKey(i) for a key function
KeyOf(h, g, name, args) == resolveKey(h, Op(h, g, name).queryKey, args)

\* g.<op>.invalidates, or g.<op>.invalidates(i)
InvalidatesOf(h, g, name, args) == resolveKey(h, Op(h, g, name).invalidates, args)

StaticOps == {"all", "list", "create"}
DynamicOps == {"detail", "update", "remove"}

(***************************************************************************)
(* inyectKeysToQueries                                                     *)
(***************************************************************************)
\* a mutant of injectQueryKey: the branch for queryKey functions is missing
injectQueryKeyStaticOnly(h, extra, o) ==
  IF "queryKey" \in DOMAIN o /\ o.queryKey.t = "object"
    THEN [o EXCEPT !.queryKey = Key(Spread(o.queryKey.k, h[extra]))]
    ELSE o

\* a mutant of injectQueryKey: a queryKey function that is already a wrapper
\* is not wrapped again
injectQueryKeyOnce(h, extra, o) ==
  IF "queryKey" \in DOMAIN o
    THEN IF IsFunction(o.queryKey)
           THEN IF o.queryKey.fn = "injected"
                  THEN o
                  ELSE [o EXCEPT !.queryKey = injectedFn(o.queryKey, extra)]
         ELSE IF o.queryKey.t = "object"
           THEN [o EXCEPT !.queryKey = Key(Spread(o.queryKey.k, h[extra]))]
         ELSE o
    ELSE o

\* a mutant of injectQueryKey: a static invalidates key is merged with extra
\* as well
injectQueryKeyAndInvalidates(h, extra, o) ==
  LET o1 == IF "invalidates" \in DOMAIN o /\ o.invalidates.t = "object"
              THEN [o EXCEPT !.invalidates = Key(Spread(o.invalidates.k, h[extra]))]
              ELSE o
  IN IF "queryKey" \in DOMAIN o
       THEN IF IsFunction(o.queryKey)
              THEN [o1 EXCEPT !.queryKey = injectedFn(o.queryKey, extra)]
            ELSE IF o.queryKey.t = "object"
              THEN [o1 EXCEPT !.queryKey = Key(Spread(o.queryKey.k, h[extra]))]
            ELSE o1
       ELSE o1

\* obj.queryKey = (...args) => {...} / obj.queryKey = { ...obj.queryKey, ...extra }
\* for the object o; extra is the address of the caller's extra object
injectQueryKey(h, extra, o) ==
  IF "queryKey" \in DOMAIN o
    THEN IF IsFunction(o.queryKey)
           THEN [o EXCEPT !.queryKey = injectedFn(o.queryKey, extra)]
         ELSE IF o.queryKey.t = "object"
           THEN [o EXCEPT !.queryKey = Key(Spread(o.queryKey.k, h[extra]))]
         ELSE o
    ELSE o

RECURSIVE process(_, _, _), processProps(_, _, _, _), processItems(_, _, _, _)

\* a mutant of process: arrays are returned as they are
processSkipArrays(h, extra, obj) ==
  IF obj.t = "ref"
    THEN LET h1 == [h EXCEPT ![obj.a] = injectQueryKey(h, extra, h[obj.a])]
         IN [h |-> processProps(h1, extra, obj.a, DOMAIN h1[obj.a]), v |-> obj]
    ELSE [h |-> h, v |-> obj]

\* const process = (obj) => ... ; returns the heap after the call and the
\* value returned
process(h, extra, obj) ==
  IF IsArray(obj)
    THEN processItems(h, extra, obj.items, << >>)
  ELSE IF obj.t = "ref"
    THEN LET h1 == [h EXCEPT ![obj.a] = injectQueryKey(h, extra, h[obj.a])]
         IN [h |-> processProps(h1, extra, obj.a, DOMAIN h1[obj.a]), v |-> obj]
  \* a plain object of scalars: a queryKey property it may own is a scalar,
  \* and so is every property the loop assigns back
  ELSE [h |-> h, v |-> obj]

\* for (const prop in obj) obj[prop] = process(obj[prop]), over the
\* properties in props that are still to be visited
processProps(h, extra, a, props) ==
  IF props = {}
    THEN h
    ELSE LET prop == CHOOSE p \in props : TRUE
             r == process(h, extra, h[a][prop])
         IN processProps([r.h EXCEPT ![a][prop] = r.v], extra, a, props \ {prop})

\* obj.map(process): the elements from index Len(done)+1 on are still to be
\* visited
processItems(h, extra, items, done) ==
  IF Len(done) = Len(items)
    THEN [h |-> h, v |-> Arr(done)]
    ELSE LET r == process(h, extra, items[Len(done) + 1])
         IN processItems(r.h, extra, items, Append(done, r.v))

OpNames == << "all", "list", "detail", "create", "update", "remove" >>

\* a mutant of inyectKeysToQueries: it injects into a copy of the group (the
\* group object and its six operation objects) and returns the copy
inyectKeysToQueriesCopy(h, queries, extra) ==
  LET base == Len(h)
      copies == [i \in 1..6 |-> h[h[queries.a][OpNames[i]].a]]
      copy == [name \in DOMAIN h[queries.a] |->
                 Ref(base + CHOOSE i \in 1..6 : OpNames[i] = name)]
  IN process(h \o copies \o << copy >>, extra, Ref(base + 7))

\* inyectKeysToQueries(queries, extra)
inyectKeysToQueries(h, queries, extra) == process(h, extra, queries)

(***************************************************************************)
(* queryClient: the cache (TanStack Query v5)                              *)
(***************************************************************************)
\* the hash of the queryKey [key]: structural, so the key's fields
QueryHash(key) == key.k

\* queryClient.getQueryData([key])
getQueryData(c, key) ==
  IF QueryHash(key) \in DOMAIN c THEN c[QueryHash(key)] ELSE Undefined

\* queryClient.setQueryData([key], data) once the updater has been applied:
\* v5 leaves the cache alone when the new data is undefined
setQueryData(c, key, data) ==
  IF data.t = "undefined"
    THEN c
    ELSE [s \in DOMAIN c \cup {QueryHash(key)} |->
            IF s = QueryHash(key) THEN data ELSE c[s]]

\* the engine's matching of a filter { queryKey: [filter] } against the cached
\* queryKey [key]: every field of filter has the same value in key
partialMatchKey(filter, key) ==
  \A f \in DOMAIN filter.k : f \in DOMAIN key.k /\ key.k[f] = filter.k[f]

\* what calling .map / .filter / spreading a truthy non-array raises
TypeError == [t |-> "TypeError"]

\* a mutant of appendItem: the new item goes first
appendItemFirst(old, data) ==
  IF ~Truthy(old) THEN Arr(<< data >>)
  ELSE IF ~IsArray(old) THEN TypeError
  ELSE Arr(<< data >> \o old.items)

\* a mutant of appendItem: an item whose id is already in the list is not
\* appended
appendItemUnique(old, data) ==
  IF ~Truthy(old) THEN Arr(<< data >>)
  ELSE IF ~IsArray(old) THEN TypeError
  ELSE IF \E i \in 1..Len(old.items) : old.items[i].k.id = data.k.id THEN old
  ELSE Arr(Append(old.items, data))

\* (old) => { if (!old) return [data]; return [...old, data]; }
appendItem(old, data) ==
  IF ~Truthy(old) THEN Arr(<< data >>)
  ELSE IF ~IsArray(old) THEN TypeError
  ELSE Arr(Append(old.items, data))

\* a mutant of replaceItem: items compared as objects (item === data), not
\* by their id
replaceItemSameObject(old, data) ==
  IF ~Truthy(old) THEN old
  ELSE IF ~IsArray(old) THEN TypeError
  ELSE Arr([i \in 1..Len(old.items) |->
              IF old.items[i] = data THEN data ELSE old.items[i]])

\* a mutant of replaceItem: an absent list becomes [data]
replaceItemOrCreate(old, data) ==
  IF ~Truthy(old) THEN Arr(<< data >>)
  ELSE IF ~IsArray(old) THEN TypeError
  ELSE Arr([i \in 1..Len(old.items) |->
              IF old.items[i].k.id = data.k.id THEN data ELSE old.items[i]])

\* (old) => { if (!old) return old;
\*            return old.map((item) => (item.id === data.id ? data : item)); }
replaceItem(old, data) ==
  IF ~Truthy(old) THEN old
  ELSE IF ~IsArray(old) THEN TypeError
  ELSE Arr([i \in 1..Len(old.items) |->
              IF old.items[i].k.id = data.k.id THEN data ELSE old.items[i]])

KeepsId(item, data) == item.k.id # data.k.id

\* (old) => { if (!old) return old;
\*            return old.filter((item) => item.id !== data.id); }
removeItem(old, data) ==
  IF ~Truthy(old) THEN old
  ELSE IF ~IsArray(old) THEN TypeError
  ELSE Arr(SelectSeq(old.items, LAMBDA item : KeepsId(item, data)))

\* the updater the normalize callback of operation op passes for the list
listUpdater(op, old, data) ==
  CASE op = "create" -> appendItem(old, data)
    [] op = "remove" -> removeItem(old, data)
    [] OTHER -> replaceItem(old, data)

\* a mutant of setDetail: the callback of detail sets the detail entry too
setDetailAlways(op, c, detailKey, data) ==
  CASE op = "remove" -> setQueryData(c, detailKey, Undefined)
    [] OTHER -> setQueryData(c, detailKey, data)

\* a mutant of setDetail: the callback of update leaves the detail entry
setDetailNotOnUpdate(op, c, detailKey, data) ==
  CASE op \in {"detail", "update"} -> c
    [] op = "remove" -> setQueryData(c, detailKey, Undefined)
    [] OTHER -> setQueryData(c, detailKey, data)

\* a mutant of setDetail: create and update write data to every detail entry
\* the cache holds, not only to the one of detailKey
setDetailEverywhere(op, c, detailKey, data) ==
  CASE op = "detail" -> c
    [] op = "remove" -> setQueryData(c, detailKey, Undefined)
    [] OTHER -> [s \in DOMAIN c \cup {QueryHash(detailKey)} |->
                   IF "id" \in DOMAIN s THEN data ELSE c[s]]

\* the second setQueryData of the normalize callback of operation op
setDetail(op, c, detailKey, data) ==
  CASE op = "detail" -> c
    [] op = "remove" -> setQueryData(c, detailKey, Undefined)
    [] OTHER -> setQueryData(c, detailKey, data)

\* a mutant of normalize: list and detail are read from the group object
\* allocated last, not from the factory's operation objects
normalizeNewestGroup(h, c, f, data) ==
  LET g == Ref(Len(h))
      listKey == resolveKey(h, Op(h, g, "list").queryKey, << >>)
      detailKey == resolveKey(h, Op(h, g, "detail").queryKey, << Str(data.k.id) >>)
      newList == listUpdater(f.op, getQueryData(c, listKey), data)
  IN IF newList = TypeError
       THEN [cache |-> c, threw |-> TRUE]
       ELSE [cache |-> setDetail(f.op, setQueryData(c, listKey, newList),
                                 detailKey, data),
             threw |-> FALSE]

\* f(data) for a normalize callback f: the cache after the call, and whether
\* the call raised (it raises before any write)
normalize(h, c, f, data) ==
  LET listKey == resolveKey(h, h[f.list].queryKey, << >>)
      detailKey == resolveKey(h, h[f.detail].queryKey, << Str(data.k.id) >>)
      newList == listUpdater(f.op, getQueryData(c, listKey), data)
  IN IF newList = TypeError
       THEN [cache |-> c, threw |-> TRUE]
       ELSE [cache |-> setDetail(f.op, setQueryData(c, listKey, newList),
                                 detailKey, data),
             threw |-> FALSE]

(***************************************************************************)
(* The application: building and injecting the group                       *)
(***************************************************************************)
\* let group = createQueryGroupCRUD(entityName); original = group
Init ==
  /\ entity \in Entities
  /\ heap = createQueryGroupCRUD(entity, 0)
  /\ group = Ref(GroupAddr(0))
  /\ original = Ref(GroupAddr(0))
  /\ cache = << >>
  /\ last = [fn |-> "createQueryGroupCRUD", entityName |-> entity,
             ret |-> Ref(GroupAddr(0))]
  /\ nInject = 0
  /\ engineCalls = << >>
  /\ pc = "idle"
  /\ inflight = << >>
  /\ cancelling = {}
  /\ writer = "none"
  /\ stack = << >>

\* group = inyectKeysToQueries(group, extra), extra a fresh object literal
Inject(extra) ==
  /\ nInject < MaxInject
  /\ LET e == Len(heap) + 1
         r == inyectKeysToQueries(Append(heap, extra), group, e)
     IN /\ heap' = r.h
        /\ group' = r.v
        /\ last' = [fn |-> "inyectKeysToQueries", queries |-> group,
                    extra |-> extra, ret |-> r.v]
  /\ nInject' = nInject + 1
  /\ UNCHANGED <<stack, entity, original, cache, engineCalls, pc, inflight,
                 cancelling, writer>>

InyectKeysToQueries == \E extra \in Extras : Inject(extra)

Next == InyectKeysToQueries

Spec == Init /\ [][Next]_vars

(***************************************************************************)
(* The application: changing an extra object after it was injected         *)
(***************************************************************************)
\* the value the application assigns
Changed == "changed"

\* the number of assignments the application makes
MaxAssign == 1

\* the fields of injected extra objects that were assigned
ChangedFields ==
  UNION { { <<n, field>> : field \in { g \in DOMAIN heap[GroupAddr(0) + n] :
                                          heap[GroupAddr(0) + n][g] = Changed } } :
          n \in 1..nInject }

\* extra.<field> = 'changed', extra being the object passed to the n-th
\* inyectKeysToQueries call
AssignExtra ==
  \E n \in 1..nInject : \E field \in DOMAIN heap[GroupAddr(0) + n] :
    /\ heap[GroupAddr(0) + n][field] # Changed
    /\ Cardinality(ChangedFields) < MaxAssign
    /\ heap' = [heap EXCEPT ![GroupAddr(0) + n][field] = Changed]
    /\ last' = [fn |-> "assignExtra", n |-> n, field |-> field]
    /\ UNCHANGED <<stack, entity, group, original, cache, nInject, engineCalls,
                   pc, inflight, cancelling, writer>>

\* the extra objects the application keeps and assigns to
KeptExtras == { [auth |-> "true"], [entity |-> "shared", id |-> "9"] }

InyectKept == \E extra \in KeptExtras : Inject(extra)

NextExtra ==
  \/ InyectKept
  \/ AssignExtra

SpecExtra == Init /\ [][NextExtra]_vars

(***************************************************************************)
(* The application: a group extended with custom operations, a nested      *)
(* group and arrays of operations                                          *)
(***************************************************************************)
\* the entity of the group nested in the group of entity e
ChildEntity(e) == IF e = "accounts" THEN "transactions" ELSE "sessions"

\* addresses of the objects of the extended group
NestedBase == GroupAddr(0)
Associates == GroupAddr(NestedBase) + 1
Archive == Associates + 1
Report == Archive + 1
Export == Report + 1
Audit == Export + 1
Child == Audit + 1
Root == Child + 1

\* const crud = createQueryGroupCRUD(e), childCrud = createQueryGroupCRUD(c);
\* const root = { ...crud,
\*                associates: { queryKey: { entity: e, scope: 'associates', method: 'list' } },
\*                archive: { queryKey: (id) => ({ entity: e, method: 'archive', id }), type: 'mutation' },
\*                reports: [{ queryKey: {...} }, { queryKey: (id) => ... }],
\*                child: { ...childCrud, audit: [[{ queryKey: {...} }]] } }
extendedGroup(e) ==
  LET crud == createQueryGroupCRUD(e, 0)
      childCrud == createQueryGroupCRUD(ChildEntity(e), NestedBase)
  IN crud \o childCrud \o
     << [queryKey |-> Key([entity |-> e, scope |-> "associates", method |-> "list"])],
        [queryKey |-> queryKeyFn(e, "archive"), type |-> Str("mutation")],
        [queryKey |-> Key([entity |-> e, method |-> "report"]), type |-> Str("query")],
        [queryKey |-> queryKeyFn(e, "export"), type |-> Str("query")],
        [queryKey |-> Key([entity |-> ChildEntity(e), method |-> "audit"])],
        [f \in DOMAIN childCrud[7] \cup {"audit"} |->
           IF f = "audit" THEN Arr(<< Arr(<< Ref(Audit) >>) >>) ELSE childCrud[7][f]],
        [f \in DOMAIN crud[7] \cup {"associates", "archive", "reports", "child"} |->
           CASE f = "associates" -> Ref(Associates)
             [] f = "archive" -> Ref(Archive)
             [] f = "reports" -> Arr(<< Ref(Report), Ref(Export) >>)
             [] f = "child" -> Ref(Child)
             [] OTHER -> crud[7][f]] >>

\* let group = { ...createQueryGroupCRUD(entity), ... }; original = group
InitNested ==
  /\ entity \in Entities
  /\ heap = extendedGroup(entity)
  /\ group = Ref(Root)
  /\ original = Ref(Root)
  /\ cache = << >>
  /\ last = [fn |-> "createQueryGroupCRUD", entityName |-> entity,
             ret |-> Ref(GroupAddr(0))]
  /\ nInject = 0
  /\ engineCalls = << >>
  /\ pc = "idle"
  /\ inflight = << >>
  /\ cancelling = {}
  /\ writer = "none"
  /\ stack = << >>

SpecNested == InitNested /\ [][Next]_vars

(***************************************************************************)
(* The application: an operation whose queryKey function it wrote itself   *)
(***************************************************************************)
\* what the application's queryKey function returns: an array of keys, a
\* string, null, undefined, or a key object
CustomResults(e) ==
  { Arr(<< Key([entity |-> e]) >>), Str("all"), Null, Undefined,
    Key([entity |-> e, method |-> "search"]) }

\* addresses of the operation and of the group that holds it
CustomOp == 1
CustomRoot == 2

\* let group = { search: { queryKey: () => result, type: 'query' } }
InitCustom ==
  /\ entity \in Entities
  /\ \E result \in CustomResults(entity) :
       heap = << [queryKey |-> returnsFn(result), type |-> Str("query")],
                 [search |-> Ref(CustomOp)] >>
  /\ group = Ref(CustomRoot)
  /\ original = Ref(CustomRoot)
  /\ cache = << >>
  /\ last = [fn |-> "none"]
  /\ nInject = 0
  /\ engineCalls = << >>
  /\ pc = "idle"
  /\ inflight = << >>
  /\ cancelling = {}
  /\ writer = "none"
  /\ stack = << >>

SpecCustom == InitCustom /\ [][Next]_vars

(***************************************************************************)
(* inyectKeysToQueries call by call: the stack of process                  *)
(***************************************************************************)
\* the properties of key objects that hold an object in the inputs below;
\* every other property of a key object holds a string
ObjectFields == {"context"}

\* whether process(v) has properties or elements to recurse into: v is an
\* array, an object of the heap, or a key object with a property that holds
\* an object (for a function, a string, null or undefined process returns at
\* once, and a key object of strings gives it only strings to return)
Recurses(v) ==
  \/ v.t \in {"array", "ref"}
  \/ v.t = "object" /\ DOMAIN v.k \cap ObjectFields # {}

\* the heap after the hasOwnProperty(obj, 'queryKey') block of process(v); a
\* key object of the inputs owns no queryKey property
enterHeap(h, extra, v) ==
  IF v.t = "ref" THEN [h EXCEPT ![v.a] = injectQueryKey(h, extra, h[v.a])] ELSE h

\* the frame of the call process(v): the properties the for-in loop (or the
\* elements obj.map) has still to visit, and the property being assigned
Frame(h, v) ==
  CASE v.t = "ref" ->
         [kind |-> "object", a |-> v.a, todo |-> DOMAIN h[v.a], cur |-> ""]
    [] v.t = "array" ->
         [kind |-> "array", items |-> v.items, done |-> << >>]
    [] v.t = "object" ->
         [kind |-> "key", k |-> v.k, todo |-> DOMAIN v.k, cur |-> ""]

\* the frame of the call that is running
Top == stack[Len(stack)]

\* whether the loop of frame fr has a property or an element left
HasNext(fr) ==
  IF fr.kind = "array" THEN Len(fr.done) < Len(fr.items) ELSE fr.todo # {}

NextProp(fr) == CHOOSE prop \in fr.todo : TRUE

\* obj[prop], or the next element: the argument of the next process call
NextValue(h, fr) ==
  CASE fr.kind = "array" -> fr.items[Len(fr.done) + 1]
    [] fr.kind = "object" -> h[fr.a][NextProp(fr)]
    [] fr.kind = "key" ->
         IF NextProp(fr) \in ObjectFields
           THEN fr.k[NextProp(fr)]
           ELSE Str(fr.k[NextProp(fr)])

\* frame fr once process(v) has returned v itself without recursing
Skipped(fr, v) ==
  IF fr.kind = "array"
    THEN [fr EXCEPT !.done = Append(@, v)]
    ELSE [fr EXCEPT !.todo = @ \ {NextProp(fr)}]

\* frame fr while the call it makes for its next property / element runs
Calling(fr) ==
  IF fr.kind = "array"
    THEN fr
    ELSE [fr EXCEPT !.todo = @ \ {NextProp(fr)}, !.cur = NextProp(fr)]

\* return obj, or the array obj.map built
Returned(fr) ==
  CASE fr.kind = "array" -> Arr(fr.done)
    [] fr.kind = "object" -> Ref(fr.a)
    [] fr.kind = "key" -> Key(fr.k)

\* frame fr once the call it made has returned v: obj[prop] = v
Assigned(fr, v) ==
  CASE fr.kind = "array" -> [fr EXCEPT !.done = Append(@, v)]
    [] fr.kind = "object" -> [fr EXCEPT !.cur = ""]
    [] fr.kind = "key" -> [fr EXCEPT !.k[fr.cur] = v, !.cur = ""]

\* the object graphs passed as queries: the factory's group; the group with
\* its detail operation under a second property ({ ...crud, byId:
\* crud.detail }); the group whose list operation refers back to the group
\* (crud.list.group = crud)
WalkShapes == {"tree", "shared", "cyclic"}

walkGraph(e, shape) ==
  LET crud == createQueryGroupCRUD(e, 0)
      g == GroupAddr(0)
  IN CASE shape = "tree" -> crud
       [] shape = "shared" ->
            [crud EXCEPT ![g] = [f \in DOMAIN crud[g] \cup {"byId"} |->
                                   IF f = "byId" THEN crud[g].detail ELSE crud[g][f]]]
       [] shape = "cyclic" ->
            [crud EXCEPT ![2] = [f \in DOMAIN crud[2] \cup {"group"} |->
                                   IF f = "group" THEN Ref(g) ELSE crud[2][f]]]

\* the objects the caller allocates for extra, extra itself last:
\* { auth: true }, and { context: c } with c = { queryKey: { scope:
\* 'associates' } } allocated at base + 1
walkExtras(base) ==
  { << [auth |-> "true"] >>,
    << [queryKey |-> Key([scope |-> "associates"])],
       [context |-> Ref(base + 1)] >> }

\* during a call the extra object is the object allocated last
ExtraOf(h) == Len(h)

InitWalk ==
  /\ entity \in Entities
  /\ \E shape \in WalkShapes : heap = walkGraph(entity, shape)
  /\ group = Ref(GroupAddr(0))
  /\ original = Ref(GroupAddr(0))
  /\ cache = << >>
  /\ last = [fn |-> "createQueryGroupCRUD", entityName |-> entity,
             ret |-> Ref(GroupAddr(0))]
  /\ nInject = 0
  /\ engineCalls = << >>
  /\ pc = "idle"
  /\ inflight = << >>
  /\ cancelling = {}
  /\ writer = "none"
  /\ stack = << >>

\* group = inyectKeysToQueries(group, extra): the call process(queries) starts
WalkBegin ==
  /\ nInject = 0
  /\ stack = << >>
  /\ \E objs \in walkExtras(Len(heap)) :
       LET h == heap \o objs
       IN /\ heap' = enterHeap(h, ExtraOf(h), group)
          /\ stack' = << Frame(h, group) >>
  /\ nInject' = 1
  /\ UNCHANGED <<entity, group, original, cache, last, engineCalls, pc,
                 inflight, cancelling, writer>>

\* obj[prop] = process(obj[prop]) for a value process returns as it is
WalkSkip ==
  /\ stack # << >>
  /\ HasNext(Top)
  /\ ~Recurses(NextValue(heap, Top))
  /\ stack' = [stack EXCEPT ![Len(stack)] = Skipped(Top, NextValue(heap, Top))]
  /\ UNCHANGED <<entity, heap, group, original, cache, last, nInject,
                 engineCalls, pc, inflight, cancelling, writer>>

\* process(obj[prop]) is called for an object or an array: a new frame
WalkDescend ==
  /\ stack # << >>
  /\ HasNext(Top)
  /\ Recurses(NextValue(heap, Top))
  /\ Len(stack) < MaxStack
  /\ heap' = enterHeap(heap, ExtraOf(heap), NextValue(heap, Top))
  /\ stack' = Append([stack EXCEPT ![Len(stack)] = Calling(Top)],
                     Frame(heap, NextValue(heap, Top)))
  /\ UNCHANGED <<entity, group, original, cache, last, nInject, engineCalls,
                 pc, inflight, cancelling, writer>>

\* the same call when the stack is full: the engine raises RangeError
\* (maximum call stack size exceeded), which nothing in the library catches
WalkOverflow ==
  /\ stack # << >>
  /\ HasNext(Top)
  /\ Recurses(NextValue(heap, Top))
  /\ Len(stack) >= MaxStack
  /\ stack' = << >>
  /\ last' = [fn |-> "inyectKeysToQueries", queries |-> group,
              extra |-> heap[ExtraOf(heap)], threw |-> TRUE]
  /\ UNCHANGED <<entity, heap, group, original, cache, nInject, engineCalls,
                 pc, inflight, cancelling, writer>>

\* return obj: the caller assigns the result, or inyectKeysToQueries returns
WalkReturn ==
  /\ stack # << >>
  /\ ~HasNext(Top)
  /\ IF Len(stack) = 1
       THEN /\ stack' = << >>
            /\ heap' = heap
            /\ group' = Returned(Top)
            /\ last' = [fn |-> "inyectKeysToQueries", queries |-> group,
                        extra |-> heap[ExtraOf(heap)], ret |-> Returned(Top),
                        threw |-> FALSE]
       ELSE LET caller == stack[Len(stack) - 1]
            IN /\ stack' = Append(SubSeq(stack, 1, Len(stack) - 2),
                                  Assigned(caller, Returned(Top)))
               /\ heap' = IF caller.kind = "object"
                            THEN [heap EXCEPT ![caller.a][caller.cur] = Returned(Top)]
                            ELSE heap
               /\ UNCHANGED <<group, last>>
  /\ UNCHANGED <<entity, original, cache, nInject, engineCalls, pc, inflight,
                 cancelling, writer>>

NextWalk ==
  \/ WalkBegin
  \/ WalkSkip
  \/ WalkDescend
  \/ WalkOverflow
  \/ WalkReturn

SpecWalk == InitWalk /\ [][NextWalk]_vars

(***************************************************************************)
(* The application: normalize callbacks after mutations                    *)
(***************************************************************************)
\* the extra the application's createAuthQueryGroup helper injects
AuthExtra == [auth |-> "true"]

\* the application has built its group, either with createQueryGroupCRUD
\* alone or with createAuthQueryGroup (factory, then injection of AuthExtra)
InitApp ==
  /\ entity \in Entities
  /\ \E auth \in BOOLEAN :
       LET built == createQueryGroupCRUD(entity, 0)
           g == Ref(GroupAddr(0))
           r == inyectKeysToQueries(Append(built, AuthExtra), g, Len(built) + 1)
       IN IF auth
            THEN /\ heap = r.h
                 /\ group = r.v
                 /\ nInject = 1
                 /\ last = [fn |-> "inyectKeysToQueries", queries |-> g,
                            extra |-> AuthExtra, ret |-> r.v]
            ELSE /\ heap = built
                 /\ group = g
                 /\ nInject = 0
                 /\ last = [fn |-> "createQueryGroupCRUD", entityName |-> entity,
                            ret |-> g]
  /\ original = Ref(GroupAddr(0))
  /\ cache = << >>
  /\ engineCalls = << >>
  /\ pc = "idle"
  /\ inflight = << >>
  /\ cancelling = {}
  /\ writer = "none"
  /\ stack = << >>

\* the cache slots of the group's list and of its detail(id)
ListSlot == QueryHash(KeyOf(heap, group, "list", << >>))
DetailSlot(id) == QueryHash(KeyOf(heap, group, "detail", << Str(id) >>))

\* number of items in the list cache entry
ListLen == IF ListSlot \in DOMAIN cache /\ IsArray(cache[ListSlot])
             THEN Len(cache[ListSlot].items) ELSE 0

\* group.<op>.normalize(data)
Normalize(op, data) ==
  /\ op = "create" => ListLen < MaxList
  /\ LET r == normalize(heap, cache, Op(heap, group, op).normalize, Key(data))
     IN /\ cache' = r.cache
        /\ last' = [fn |-> "normalize", op |-> op, data |-> data,
                    threw |-> r.threw]
  /\ UNCHANGED <<stack, entity, heap, group, original, nInject, engineCalls, pc,
                 inflight, cancelling, writer>>

DetailNormalize == \E data \in Items : Normalize("detail", data)
CreateNormalize == \E data \in Items : Normalize("create", data)
UpdateNormalize == \E data \in Items : Normalize("update", data)
RemoveNormalize == \E data \in Items : Normalize("remove", data)

NextCache ==
  \/ DetailNormalize
  \/ CreateNormalize
  \/ UpdateNormalize
  \/ RemoveNormalize

SpecCache == InitApp /\ [][NextCache]_vars

\* the ids of the items in the list cache entry
ListIds ==
  IF ListSlot \in DOMAIN cache /\ IsArray(cache[ListSlot])
    THEN { cache[ListSlot].items[i].k.id : i \in 1..Len(cache[ListSlot].items) }
    ELSE {}

\* group.create.normalize(data) for an item the list does not hold yet
CreateNormalizeNew ==
  \E data \in Items : data.id \notin ListIds /\ Normalize("create", data)

\* the mutations of an application that creates every id once
NextCrud ==
  \/ CreateNormalizeNew
  \/ UpdateNormalize
  \/ RemoveNormalize

SpecCrud == InitApp /\ [][NextCrud]_vars

(***************************************************************************)
(* The application: a spread copy of the group with list or detail         *)
(* replaced                                                                *)
(***************************************************************************)
\* the operations the application replaces on its copy
Overrides == {"list", "detail"}

\* the operation object put in place of the factory's: the paginated list,
\* or a detail operation with a key function of its own
overrideOp(e, name) ==
  IF name = "list"
    THEN [queryKey |-> pagedFn(2)]
    ELSE [queryKey |-> queryKeyFn(e, "detailFull"), type |-> Str("query")]

\* the objects { ...crud, [name]: { ... } } allocates on heap h: the new
\* operation, then the copy of the group object
spreadCopy(h, e, name) ==
  << overrideOp(e, name),
     [f \in DOMAIN h[GroupAddr(0)] |->
        IF f = name THEN Ref(Len(h) + 1) ELSE h[GroupAddr(0)][f]] >>

\* let crud = createQueryGroupCRUD(entity) (injected with AuthExtra or not);
\* group = { ...crud, list: {...} } or { ...crud, detail: {...} }
InitPaginated ==
  /\ entity \in Entities
  /\ \E auth \in BOOLEAN : \E name \in Overrides :
       LET built == createQueryGroupCRUD(entity, 0)
           g == Ref(GroupAddr(0))
           r == inyectKeysToQueries(Append(built, AuthExtra), g, Len(built) + 1)
           h == IF auth THEN r.h ELSE built
       IN /\ heap = h \o spreadCopy(h, entity, name)
          /\ group = Ref(Len(h) + 2)
          /\ nInject = IF auth THEN 1 ELSE 0
  /\ original = Ref(GroupAddr(0))
  /\ cache = << >>
  /\ last = [fn |-> "none"]
  /\ engineCalls = << >>
  /\ pc = "idle"
  /\ inflight = << >>
  /\ cancelling = {}
  /\ writer = "none"
  /\ stack = << >>

\* the mutations made through the copy
NextPaginated ==
  \/ CreateNormalize
  \/ UpdateNormalize
  \/ RemoveNormalize

SpecPaginated == InitPaginated /\ [][NextPaginated]_vars

(***************************************************************************)
(* The application: two entities in one cache                              *)
(***************************************************************************)
\* the entity of the application's second group
OtherEntity(e) == CHOOSE o \in Entities : o # e

\* the second group, createQueryGroupCRUD(OtherEntity(entity)): the object
\* allocated last
OtherGroup == Ref(Len(heap))

OtherListSlot == QueryHash(KeyOf(heap, OtherGroup, "list", << >>))
OtherDetailSlot(id) == QueryHash(KeyOf(heap, OtherGroup, "detail", << Str(id) >>))

\* the cache after other.create.normalize(item) for every item of items, in
\* their order
RECURSIVE created(_, _, _, _)
created(h, c, g, items) ==
  IF items = << >> THEN c
  ELSE created(h, normalize(h, c, Op(h, g, "create").normalize, Key(Head(items))).cache,
               g, Tail(items))

\* the application has built its group as in InitApp and a second group for
\* the other entity, and has created one item per id through the second group
InitTwo ==
  /\ entity \in Entities
  /\ \E auth \in BOOLEAN :
       LET built == createQueryGroupCRUD(entity, 0)
           g == Ref(GroupAddr(0))
           r == inyectKeysToQueries(Append(built, AuthExtra), g, Len(built) + 1)
           h == IF auth THEN r.h ELSE built
           both == h \o createQueryGroupCRUD(OtherEntity(entity), Len(h))
       IN /\ heap = both
          /\ group = IF auth THEN r.v ELSE g
          /\ nInject = IF auth THEN 1 ELSE 0
          /\ cache = created(both, << >>, Ref(Len(both)),
                             << [id |-> "1", name |-> "old"],
                                [id |-> "2", name |-> "old"] >>)
  /\ original = Ref(GroupAddr(0))
  /\ last = [fn |-> "createQueryGroupCRUD", entityName |-> OtherEntity(entity),
             ret |-> OtherGroup]
  /\ engineCalls = << >>
  /\ pc = "idle"
  /\ inflight = << >>
  /\ cancelling = {}
  /\ writer = "none"
  /\ stack = << >>

SpecTwo == InitTwo /\ [][NextCache]_vars

(***************************************************************************)
(* invalidateQueriesForKeys / cancelQueriesForKeys                         *)
(***************************************************************************)
\* a mutant of filterBoolean: repeated keys are dropped as well
filterBooleanUnique(keys) ==
  SelectSeq([i \in 1..Len(keys) |->
               IF \E j \in 1..(i - 1) : keys[j] = keys[i] THEN Null ELSE keys[i]],
            Truthy)

\* keys.filter(Boolean)
filterBoolean(keys) == SelectSeq(keys, Truthy)

\* the calls invalidateQueriesForKeys(keys, invalidateOptions) makes, in order:
\* queryClient.invalidateQueries({ queryKey: [key], ...invalidateOptions })
invalidateQueriesForKeys(keys, invalidateOptions) ==
  [i \in 1..Len(filterBoolean(keys)) |->
     [method |-> "invalidateQueries",
      filters |-> Spread([queryKey |-> << filterBoolean(keys)[i] >>],
                         invalidateOptions)]]

\* a mutant of cancelQueriesForKeys: the keys are not filtered
cancelQueriesForKeysUnfiltered(keys) ==
  [i \in 1..Len(keys) |->
     [method |-> "cancelQueries", filters |-> [queryKey |-> << keys[i] >>]]]

\* the calls cancelQueriesForKeys(keys) makes, in order:
\* queryClient.cancelQueries({ queryKey: [key] })
cancelQueriesForKeys(keys) ==
  [i \in 1..Len(filterBoolean(keys)) |->
     [method |-> "cancelQueries",
      filters |-> [queryKey |-> << filterBoolean(keys)[i] >>]]]

\* a mutant of BatchReturn: a promise of the engine's completions
BatchReturnPromise == [t |-> "promise"]

\* what both functions return: they are declared void and end in forEach
BatchReturn == Undefined

\* the entries callers put in the keys array: keys of the group, and the
\* null / undefined left by conditional expressions
KeyArgs ==
  { Null, Undefined,
    KeyOf(heap, group, "list", << >>),
    KeyOf(heap, group, "detail", << Str("1") >>) }

RECURSIVE SeqsUpTo(_, _)
SeqsUpTo(S, n) ==
  IF n = 0 THEN { << >> }
  ELSE SeqsUpTo(S, n - 1)
         \cup { Append(q, x) : q \in SeqsUpTo(S, n - 1), x \in S }

\* invalidateOptions: omitted, { refetchType: 'none' }, or filters that carry
\* a queryKey of their own
InvalidateOptions ==
  { << >>,
    [refetchType |-> "none"],
    [queryKey |-> << Key([entity |-> "dashboard"]) >>] }

InvalidateQueriesForKeys ==
  \E keys \in SeqsUpTo(KeyArgs, MaxKeys) : \E options \in InvalidateOptions :
    /\ engineCalls' = invalidateQueriesForKeys(keys, options)
    /\ last' = [fn |-> "invalidateQueriesForKeys", keys |-> keys,
                options |-> options, ret |-> BatchReturn]
    /\ UNCHANGED <<stack, entity, heap, group, original, cache, nInject, pc,
                   inflight, cancelling, writer>>

CancelQueriesForKeys ==
  \E keys \in SeqsUpTo(KeyArgs, MaxKeys) :
    /\ engineCalls' = cancelQueriesForKeys(keys)
    /\ last' = [fn |-> "cancelQueriesForKeys", keys |-> keys,
                ret |-> BatchReturn]
    /\ UNCHANGED <<stack, entity, heap, group, original, cache, nInject, pc,
                   inflight, cancelling, writer>>

NextBatch ==
  \/ InvalidateQueriesForKeys
  \/ CancelQueriesForKeys

SpecBatch == InitApp /\ [][NextBatch]_vars

(***************************************************************************)
(* The batch helpers when the engine raises                                *)
(***************************************************************************)
\* the error queryClient.invalidateQueries / cancelQueries raises
EngineError == [t |-> "Error", message |-> "engine failure"]

\* a mutant of callsUntilRaise: the loop goes on after the call that raised
callsDespiteRaise(calls, n) == calls

\* the calls forEach makes when the n-th call of its callback raises: the
\* callback has no try/catch, so the exception leaves forEach at that call
callsUntilRaise(calls, n) == SubSeq(calls, 1, n)

\* invalidateQueriesForKeys(keys, options) with the engine raising at its
\* n-th call
InvalidateQueriesForKeysRaises ==
  \E keys \in SeqsUpTo(KeyArgs, MaxKeys) : \E options \in InvalidateOptions :
    \E n \in 1..Len(invalidateQueriesForKeys(keys, options)) :
      /\ engineCalls' = callsUntilRaise(invalidateQueriesForKeys(keys, options), n)
      /\ last' = [fn |-> "invalidateQueriesForKeys", keys |-> keys,
                  options |-> options, raisedAt |-> n, threw |-> EngineError]
      /\ UNCHANGED <<stack, entity, heap, group, original, cache, nInject, pc,
                     inflight, cancelling, writer>>

\* cancelQueriesForKeys(keys) with the engine raising at its n-th call
CancelQueriesForKeysRaises ==
  \E keys \in SeqsUpTo(KeyArgs, MaxKeys) :
    \E n \in 1..Len(cancelQueriesForKeys(keys)) :
      /\ engineCalls' = callsUntilRaise(cancelQueriesForKeys(keys), n)
      /\ last' = [fn |-> "cancelQueriesForKeys", keys |-> keys,
                  raisedAt |-> n, threw |-> EngineError]
      /\ UNCHANGED <<stack, entity, heap, group, original, cache, nInject, pc,
                     inflight, cancelling, writer>>

NextRaises ==
  \/ InvalidateQueriesForKeysRaises
  \/ CancelQueriesForKeysRaises

SpecRaises == InitApp /\ [][NextRaises]_vars

(***************************************************************************)
(* The optimistic update pattern: onMutate and the engine's fetches        *)
(***************************************************************************)
\* the slots the engine fetches: the list and detail('1') queries
FetchSlots == { ListSlot, DetailSlot("1") }

\* what the server returns for a slot
ServerData(slot) ==
  IF slot = ListSlot
    THEN Arr(<< Key([id |-> "1", name |-> "old"]) >>)
    ELSE Key([id |-> "1", name |-> "old"])

\* variables.data of the mutation
OptimisticItem == Key([id |-> "2", name |-> "new"])

\* f restricted to the arguments other than x
Without(f, x) == [y \in DOMAIN f \ {x} |-> f[y]]

\* the engine starts fetching a query (mount, refetch, invalidation)
StartFetch ==
  \E slot \in FetchSlots :
    /\ slot \notin DOMAIN inflight
    /\ inflight' = [y \in DOMAIN inflight \cup {slot} |->
                      IF y = slot
                        THEN (IF pc = "idle" THEN "before" ELSE "after")
                        ELSE inflight[y]]
    /\ UNCHANGED <<stack, entity, heap, group, original, cache, last, nInject,
                   engineCalls, pc, cancelling, writer>>

\* a fetch in flight completes and its result is written to the cache
FetchSettle ==
  \E slot \in DOMAIN inflight :
    /\ cache' = [y \in DOMAIN cache \cup {slot} |->
                   IF y = slot THEN ServerData(slot) ELSE cache[y]]
    /\ writer' = IF slot = ListSlot
                   THEN (IF inflight[slot] = "before" THEN "fetchBefore"
                                                      ELSE "fetchAfter")
                   ELSE writer
    /\ inflight' = Without(inflight, slot)
    /\ UNCHANGED <<stack, entity, heap, group, original, last, nInject, engineCalls,
                   pc, cancelling>>

\* a cancellation the engine was asked for completes: the fetch that was in
\* flight for the query when it was asked for is dropped
CancelSettle ==
  \E slot \in cancelling :
    /\ cancelling' = cancelling \ {slot}
    /\ inflight' = IF slot \in DOMAIN inflight /\ inflight[slot] = "before"
                     THEN Without(inflight, slot) ELSE inflight
    /\ UNCHANGED <<stack, entity, heap, group, original, cache, last, nInject,
                   engineCalls, pc, writer>>

\* the arrays onMutate passes to cancelQueriesForKeys
OnMutateKeys ==
  { << KeyOf(heap, group, "list", << >>) >>,
    << KeyOf(heap, group, "list", << >>),
       KeyOf(heap, group, "detail", << Str("1") >>) >> }

\* onMutate: the call cancelQueriesForKeys([...]) of
\*   await cancelQueriesForKeys([...])
OnMutateCancel ==
  /\ pc = "idle"
  /\ \E keys \in OnMutateKeys :
       /\ engineCalls' = cancelQueriesForKeys(keys)
       /\ cancelling' = cancelling \cup
            { QueryHash(engineCalls'[i].filters.queryKey[1]) :
                i \in 1..Len(engineCalls') }
       /\ last' = [fn |-> "cancelQueriesForKeys", keys |-> keys,
                   ret |-> BatchReturn]
  /\ pc' = "awaiting"
  /\ UNCHANGED <<stack, entity, heap, group, original, cache, nInject, inflight,
                 writer>>

\* whether `await ret` may resume: a promise of the engine's cancellations
\* waits for them, any other value does not
awaitReady(ret, pending) == ret.t = "promise" => pending = {}

\* onMutate: the await resumes
OnMutateResume ==
  /\ pc = "awaiting"
  /\ awaitReady(last.ret, cancelling)
  /\ pc' = "resumed"
  /\ UNCHANGED <<stack, entity, heap, group, original, cache, last, nInject,
                 engineCalls, inflight, cancelling, writer>>

\* onMutate: queryClient.setQueryData([list.queryKey],
\*                                    (old) => [...(old || []), variables.data])
OnMutateWrite ==
  /\ pc = "resumed"
  /\ LET listKey == KeyOf(heap, group, "list", << >>)
     IN cache' = setQueryData(cache, listKey,
                              appendItem(getQueryData(cache, listKey),
                                         OptimisticItem))
  /\ writer' = "optimistic"
  /\ pc' = "written"
  /\ UNCHANGED <<stack, entity, heap, group, original, last, nInject, engineCalls,
                 inflight, cancelling>>

\* onSuccess: invalidateQueriesForKeys([list.queryKey, detail.queryKey('1')]);
\* the engine marks the queries stale and starts refetching them
OnSuccessInvalidate ==
  /\ pc = "written"
  /\ engineCalls' = invalidateQueriesForKeys(
                       << KeyOf(heap, group, "list", << >>),
                          KeyOf(heap, group, "detail", << Str("1") >>) >>, << >>)
  /\ inflight' = [y \in DOMAIN inflight \cup
                          { QueryHash(engineCalls'[i].filters.queryKey[1]) :
                              i \in 1..Len(engineCalls') } |->
                    IF y \in DOMAIN inflight THEN inflight[y] ELSE "after"]
  /\ last' = [fn |-> "invalidateQueriesForKeys",
              keys |-> << KeyOf(heap, group, "list", << >>),
                          KeyOf(heap, group, "detail", << Str("1") >>) >>,
              options |-> << >>, ret |-> BatchReturn]
  /\ pc' = "invalidated"
  /\ UNCHANGED <<stack, entity, heap, group, original, cache, nInject,
                 cancelling, writer>>

NextMutate ==
  \/ StartFetch
  \/ FetchSettle
  \/ CancelSettle
  \/ OnMutateCancel
  \/ OnMutateResume
  \/ OnMutateWrite
  \/ OnSuccessInvalidate

SpecMutate == InitApp /\ [][NextMutate]_vars

(***************************************************************************)
(* Claims about the keys                                                   *)
(***************************************************************************)
Id(i) == << Str(i) >>

\* C1: an inyectKeysToQueries(group, extra) step on a factory-built group
\* leaves every static queryKey (all, list, create) equal to the key before
\* the step merged with extra's fields, and makes every queryKey function
\* (detail, update, remove) return, for each id i, what it returned for i
\* before the step merged with extra's fields.
C1_InjectMergesExtra ==
  [][ last'.fn = "inyectKeysToQueries" =>
        /\ \A op \in StaticOps :
             KeyOf(heap', group', op, << >>)
               = Key(Spread(KeyOf(heap, group, op, << >>).k, last'.extra))
        /\ \A op \in DynamicOps : \A i \in Ids :
             KeyOf(heap', group', op, Id(i))
               = Key(Spread(KeyOf(heap, group, op, Id(i)).k, last'.extra)) ]_vars

\* the documented scenario: accounts, { auth: true }
C1_Witness ==
  /\ last.fn = "inyectKeysToQueries"
  /\ last.extra = [auth |-> "true"]
  /\ nInject = 1
  /\ KeyOf(heap, group, "list", << >>)
       = Key([entity |-> "accounts", method |-> "list", auth |-> "true"])
  /\ KeyOf(heap, group, "detail", Id("2"))
       = Key([entity |-> "accounts", method |-> "detail", id |-> "2",
              auth |-> "true"])

\* C2: the group createQueryGroupCRUD(E) returns has all.queryKey = {entity: E},
\* list.queryKey = {entity: E, method: 'list'}, create.queryKey = {entity: E,
\* method: 'create'} and, for every id i, detail/update/remove.queryKey(i) =
\* {entity: E, method: 'detail'/'update'/'remove', id: i}, with no other field.
C2_FactoryKeys ==
  last.fn = "createQueryGroupCRUD" =>
    /\ KeyOf(heap, last.ret, "all", << >>) = Key([entity |-> last.entityName])
    /\ KeyOf(heap, last.ret, "list", << >>)
         = Key([entity |-> last.entityName, method |-> "list"])
    /\ KeyOf(heap, last.ret, "create", << >>)
         = Key([entity |-> last.entityName, method |-> "create"])
    /\ \A op \in DynamicOps : \A i \in Ids :
         KeyOf(heap, last.ret, op, Id(i))
           = Key([entity |-> last.entityName, method |-> op, id |-> i])

C2_Witness ==
  /\ last.fn = "createQueryGroupCRUD"
  /\ last.entityName = "users"
  /\ KeyOf(heap, group, "remove", Id("1"))
       = Key([entity |-> "users", method |-> "remove", id |-> "1"])

\* C3: in the group createQueryGroupCRUD(E) returns, update.invalidates(i) and
\* remove.invalidates(i) are the sequence [{entity: E, id: i}, {entity: E,
\* method: 'list'}] in that order, create.invalidates is {entity: E, method:
\* 'list'}, and all, list and detail have no invalidates.
C3_FactoryInvalidates ==
  last.fn = "createQueryGroupCRUD" =>
    /\ \A op \in {"update", "remove"} : \A i \in Ids :
         InvalidatesOf(heap, last.ret, op, Id(i))
           = Arr(<< Key([entity |-> last.entityName, id |-> i]),
                    Key([entity |-> last.entityName, method |-> "list"]) >>)
    /\ InvalidatesOf(heap, last.ret, "create", << >>)
         = Key([entity |-> last.entityName, method |-> "list"])
    /\ \A op \in {"all", "list", "detail"} :
         "invalidates" \notin DOMAIN Op(heap, last.ret, op)

C3_Witness ==
  /\ last.fn = "createQueryGroupCRUD"
  /\ last.entityName = "accounts"
  /\ InvalidatesOf(heap, group, "update", Id("2")).items[1]
       = Key([entity |-> "accounts", id |-> "2"])
  /\ Len(InvalidatesOf(heap, group, "remove", Id("2")).items) = 2

FactoryKey(op, args) ==
  KeyOf(createQueryGroupCRUD(entity, 0), Ref(GroupAddr(0)), op, args)

\* C11: inyectKeysToQueries returns a new query group and does not modify its
\* argument: after the (first) call the result is another object than the
\* argument, and the keys read through the argument are still the keys the
\* factory gave it.
C11_ArgumentUntouched ==
  last.fn = "inyectKeysToQueries" /\ nInject = 1 =>
    /\ last.ret # last.queries
    /\ \A op \in StaticOps :
         KeyOf(heap, last.queries, op, << >>) = FactoryKey(op, << >>)
    /\ \A op \in DynamicOps : \A i \in Ids :
         KeyOf(heap, last.queries, op, Id(i)) = FactoryKey(op, Id(i))

\* C13: an inyectKeysToQueries(group, extra) step gives every field of extra
\* that the key already had before the step extra's value, in the static keys
\* and in the keys the queryKey functions return.
C13_ExtraWinsOnConflict ==
  [][ last'.fn = "inyectKeysToQueries" =>
        \A f \in DOMAIN last'.extra :
          /\ \A op \in StaticOps :
               f \in DOMAIN KeyOf(heap, group, op, << >>).k =>
                 KeyOf(heap', group', op, << >>).k[f] = last'.extra[f]
          /\ \A op \in DynamicOps : \A i \in Ids :
               f \in DOMAIN KeyOf(heap, group, op, Id(i)).k =>
                 KeyOf(heap', group', op, Id(i)).k[f] = last'.extra[f] ]_vars

\* { auth: true } and then { entity: 'shared', id: '9' }: entity and id of
\* the factory's keys are overridden, auth is kept
C13_Witness ==
  /\ last.fn = "inyectKeysToQueries"
  /\ last.extra = [entity |-> "shared", id |-> "9"]
  /\ nInject = 2
  /\ KeyOf(heap, group, "list", << >>)
       = Key([entity |-> "shared", method |-> "list", id |-> "9",
              auth |-> "true"])
  /\ KeyOf(heap, group, "detail", Id("1"))
       = Key([entity |-> "shared", method |-> "detail", id |-> "9",
              auth |-> "true"])

\* the address of the extra object of the n-th inyectKeysToQueries call
ExtraAddr(n) == GroupAddr(0) + n

RECURSIVE MergedWith(_, _)
\* key k merged with the extras of the first n injections, in call order
MergedWith(k, n) ==
  IF n = 0 THEN k ELSE Spread(MergedWith(k, n - 1), heap[ExtraAddr(n)])

\* C14: after injecting e1, then e2 (, then e3) into the group, every static
\* key and every key a queryKey function returns equals the factory's key
\* merged with e1, then with e2 (, then with e3), a later extra winning on
\* shared fields; and after injecting the same extra twice the keys equal the
\* keys after injecting it once.
C14_ChainedInjection ==
  nInject >= 2 =>
    /\ \A op \in StaticOps :
         /\ KeyOf(heap, group, op, << >>)
              = Key(MergedWith(FactoryKey(op, << >>).k, nInject))
         /\ (nInject = 2 /\ heap[ExtraAddr(1)] = heap[ExtraAddr(2)]) =>
              KeyOf(heap, group, op, << >>)
                = Key(Spread(FactoryKey(op, << >>).k, heap[ExtraAddr(1)]))
    /\ \A op \in DynamicOps : \A i \in Ids :
         /\ KeyOf(heap, group, op, Id(i))
              = Key(MergedWith(FactoryKey(op, Id(i)).k, nInject))
         /\ (nInject = 2 /\ heap[ExtraAddr(1)] = heap[ExtraAddr(2)]) =>
              KeyOf(heap, group, op, Id(i))
                = Key(Spread(FactoryKey(op, Id(i)).k, heap[ExtraAddr(1)]))

\* the documented chain { auth: true } then { tenantId: '42' }
C14_Witness ==
  /\ nInject = 2
  /\ heap[ExtraAddr(1)] = [auth |-> "true"]
  /\ heap[ExtraAddr(2)] = [tenantId |-> "42"]
  /\ KeyOf(heap, group, "list", << >>)
       = Key([entity |-> "accounts", method |-> "list", auth |-> "true",
              tenantId |-> "42"])
  /\ KeyOf(heap, group, "update", Id("1"))
       = Key([entity |-> "accounts", method |-> "update", id |-> "1",
              auth |-> "true", tenantId |-> "42"])

\* the keys the group produces: list, create, detail(i), update(i), remove(i)
ProducedKeys ==
  { KeyOf(heap, group, op, << >>) : op \in {"list", "create"} }
    \cup { KeyOf(heap, group, op, Id(i)) : op \in DynamicOps, i \in Ids }

\* C19: under the engine's partial-match rule the group's all.queryKey
\* matches every key the group produces, and the key { entity: E, id: i } the
\* group's invalidates functions return matches a key the group produces
\* exactly when that key has entity E and id i (so never the list or create
\* key, nor a key of another id).
C19_PartialMatchHierarchy ==
  /\ \A k \in ProducedKeys :
       partialMatchKey(KeyOf(heap, group, "all", << >>), k)
  /\ \A i \in Ids : \A k \in ProducedKeys :
       LET byId == InvalidatesOf(heap, group, "update", Id(i)).items[1]
       IN /\ byId = Key([entity |-> entity, id |-> i])
          /\ partialMatchKey(byId, k)
               <=> ("id" \in DOMAIN k.k /\ k.k.id = i /\ k.k.entity = entity)

\* accounts, injected with { auth: true }: all matches detail('1');
\* { entity: 'accounts', id: '1' } matches detail('1') and remove('1'), not
\* detail('2') and not the list key
C19_Witness ==
  /\ entity = "accounts"
  /\ nInject = 1
  /\ KeyOf(heap, group, "all", << >>) = Key([entity |-> "accounts", auth |-> "true"])
  /\ partialMatchKey(KeyOf(heap, group, "all", << >>),
                     KeyOf(heap, group, "detail", Id("1")))
  /\ partialMatchKey(Key([entity |-> "accounts", id |-> "1"]),
                     KeyOf(heap, group, "detail", Id("1")))
  /\ partialMatchKey(Key([entity |-> "accounts", id |-> "1"]),
                     KeyOf(heap, group, "remove", Id("1")))
  /\ ~partialMatchKey(Key([entity |-> "accounts", id |-> "1"]),
                      KeyOf(heap, group, "detail", Id("2")))
  /\ ~partialMatchKey(Key([entity |-> "accounts", id |-> "1"]),
                      KeyOf(heap, group, "list", << >>))

RECURSIVE RefsIn(_)
\* the addresses a value refers to: a reference, or the elements of an array
RefsIn(v) ==
  IF v.t = "ref" THEN {v.a}
  ELSE IF v.t = "array" THEN UNION { RefsIn(v.items[i]) : i \in 1..Len(v.items) }
  ELSE {}

RECURSIVE Reachable(_, _)
\* the addresses reachable from the addresses in addrs through object properties
\* and array elements
Reachable(h, addrs) ==
  LET more == addrs \cup UNION { UNION { RefsIn(h[a][prop]) : prop \in DOMAIN h[a] } :
                               a \in addrs }
  IN IF more = addrs THEN addrs ELSE Reachable(h, more)

\* C12: after inyectKeysToQueries(root, extra), every object reachable from
\* the root through object properties and array elements that owns a queryKey
\* property has every field of extra, with extra's value, in its static key or
\* in the key its queryKey function returns for each id: the CRUD operations,
\* the custom operations, the operations of the nested group and the
\* operations inside (nested) arrays.
C12_EveryReachableKeyInjected ==
  last.fn = "inyectKeysToQueries" =>
    \A a \in Reachable(heap, {last.ret.a}) :
      "queryKey" \in DOMAIN heap[a] =>
        \A f \in DOMAIN last.extra : \A i \in Ids :
          /\ f \in DOMAIN resolveKey(heap, heap[a].queryKey, Id(i)).k
          /\ resolveKey(heap, heap[a].queryKey, Id(i)).k[f] = last.extra[f]

\* { tenantId: '42' } has reached the function key of an operation inside
\* an array, the static key inside an array of arrays of the nested group,
\* and the nested group's own operations
C12_Witness ==
  /\ last.fn = "inyectKeysToQueries"
  /\ last.extra = [tenantId |-> "42"]
  /\ nInject = 1
  /\ {Export, Audit, Archive, NestedBase + 3} \subseteq Reachable(heap, {group.a})
  /\ resolveKey(heap, heap[Export].queryKey, Id("1"))
       = Key([entity |-> "accounts", method |-> "export", id |-> "1",
              tenantId |-> "42"])
  /\ heap[Audit].queryKey
       = Key([entity |-> "transactions", method |-> "audit", tenantId |-> "42"])
  /\ resolveKey(heap, heap[NestedBase + 3].queryKey, Id("2"))
       = Key([entity |-> "transactions", method |-> "detail", id |-> "2",
              tenantId |-> "42"])

\* C15: a call of inyectKeysToQueries on a finite graph of objects, arrays
\* and scalars (a tree, a graph with a node under two properties, a graph
\* with a node reachable from itself) and any extra (one whose value owns a
\* queryKey property included) ends by returning, never by raising an error.
C15_InjectionNeverRaises ==
  last.fn = "inyectKeysToQueries" => ~last.threw

\* the fields of the keys the factory builds
KeyFields == {"entity", "method", "id"}

\* C21: on a factory-built group injected with extras that have no entity,
\* method or id field, create.invalidates partially matches the injected
\* list.queryKey, and of the keys update.invalidates(i) and
\* remove.invalidates(i) return each one partially matches the injected
\* list.queryKey or the injected detail.queryKey(i), one of them the list key
\* and one of them the detail key of i.
C21_InvalidatesReachInjectedSlots ==
  (nInject >= 1 /\ \A n \in 1..nInject : DOMAIN heap[ExtraAddr(n)] \cap KeyFields = {}) =>
    LET list == KeyOf(heap, group, "list", << >>)
    IN /\ partialMatchKey(InvalidatesOf(heap, group, "create", << >>), list)
       /\ \A op \in {"update", "remove"} : \A i \in Ids :
            LET inv == InvalidatesOf(heap, group, op, Id(i)).items
                detail == KeyOf(heap, group, "detail", Id(i))
            IN /\ \A j \in 1..Len(inv) :
                    partialMatchKey(inv[j], list) \/ partialMatchKey(inv[j], detail)
               /\ \E j \in 1..Len(inv) : partialMatchKey(inv[j], list)
               /\ \E j \in 1..Len(inv) : partialMatchKey(inv[j], detail)

\* accounts injected with { auth: true } and { tenantId: '42' }
C21_Witness ==
  /\ nInject = 2
  /\ heap[ExtraAddr(1)] = [auth |-> "true"]
  /\ heap[ExtraAddr(2)] = [tenantId |-> "42"]
  /\ InvalidatesOf(heap, group, "remove", Id("2")).items[1]
       = Key([entity |-> "accounts", id |-> "2"])
  /\ partialMatchKey(Key([entity |-> "accounts", id |-> "2"]),
                     Key([entity |-> "accounts", method |-> "detail", id |-> "2",
                          auth |-> "true", tenantId |-> "42"]))
  /\ KeyOf(heap, group, "detail", Id("2"))
       = Key([entity |-> "accounts", method |-> "detail", id |-> "2",
              auth |-> "true", tenantId |-> "42"])

\* what operation op's invalidates was when the factory returned the group
FactoryInvalidates(op, args) ==
  InvalidatesOf(createQueryGroupCRUD(entity, 0), Ref(GroupAddr(0)), op, args)

\* C27: after any injections into a factory-built group, create.invalidates
\* and the sequences update.invalidates(i) and remove.invalidates(i) return
\* are what the factory's un-injected group gave, and none of their keys has
\* a field of an extra beyond entity, method and id.
C27_InvalidatesUnchanged ==
  nInject >= 1 =>
    /\ InvalidatesOf(heap, group, "create", << >>) = FactoryInvalidates("create", << >>)
    /\ DOMAIN InvalidatesOf(heap, group, "create", << >>).k \subseteq KeyFields
    /\ \A op \in {"update", "remove"} : \A i \in Ids :
         /\ InvalidatesOf(heap, group, op, Id(i)) = FactoryInvalidates(op, Id(i))
         /\ \A j \in 1..Len(InvalidatesOf(heap, group, op, Id(i)).items) :
              DOMAIN InvalidatesOf(heap, group, op, Id(i)).items[j].k \subseteq KeyFields

\* after { tenantId: '42' }: the list key has tenantId, create.invalidates
\* and update.invalidates('1') do not
C27_Witness ==
  /\ nInject = 1
  /\ last.fn = "inyectKeysToQueries"
  /\ last.extra = [tenantId |-> "42"]
  /\ KeyOf(heap, group, "list", << >>).k.tenantId = "42"
  /\ InvalidatesOf(heap, group, "create", << >>)
       = Key([entity |-> "accounts", method |-> "list"])
  /\ InvalidatesOf(heap, group, "update", Id("1"))
       = Arr(<< Key([entity |-> "accounts", id |-> "1"]),
                Key([entity |-> "accounts", method |-> "list"]) >>)

RECURSIVE OriginalFn(_)
\* the function the application wrote, under the wrappers of the injections
OriginalFn(f) == IF f.fn = "injected" THEN OriginalFn(f.originalFn) ELSE f

\* C24: after injections into an operation whose own queryKey function
\* returns an array, a string, null or undefined, the operation's queryKey is
\* a wrapper, and calling it returns exactly the value the own function
\* returns, with none of extra's fields.
C24_NonMappingPassesThrough ==
  LET f == heap[CustomOp].queryKey
  IN (nInject >= 1 /\ Call(heap, OriginalFn(f), << >>).t # "object") =>
       /\ f.fn = "injected"
       /\ Call(heap, f, << >>) = Call(heap, OriginalFn(f), << >>)

\* the own function returns [{ entity: 'accounts' }]; after two injections
\* the wrapper still returns that array
C24_Witness ==
  /\ nInject = 2
  /\ heap[CustomOp].queryKey.fn = "injected"
  /\ heap[CustomOp].queryKey.originalFn.fn = "injected"
  /\ Call(heap, heap[CustomOp].queryKey, << >>)
       = Arr(<< Key([entity |-> "accounts"]) >>)

\* C28: a step that assigns a field of an extra object injected earlier
\* leaves the static keys (all, list, create) as they were, and makes every
\* queryKey function (detail, update, remove) return the factory's key merged
\* with the extras as they are after the step: the assigned value shows in
\* those keys unless a later injection's extra has the same field.
C28_ExtraReadAtCallTime ==
  [][ last'.fn = "assignExtra" =>
        /\ \A op \in StaticOps :
             KeyOf(heap', group', op, << >>) = KeyOf(heap, group, op, << >>)
        /\ \A op \in DynamicOps : \A i \in Ids :
             /\ KeyOf(heap', group', op, Id(i))
                  = Key(MergedWith(FactoryKey(op, Id(i)).k, nInject))'
             /\ (\A m \in (last'.n + 1)..nInject :
                   last'.field \notin DOMAIN heap[ExtraAddr(m)])
                  => KeyOf(heap', group', op, Id(i)).k[last'.field] = Changed ]_vars

\* { auth: true } injected, then extra.auth = 'changed': the list key still
\* has auth 'true', detail('1') has auth 'changed'
C28_Witness ==
  /\ last.fn = "assignExtra"
  /\ nInject = 1
  /\ KeyOf(heap, group, "list", << >>)
       = Key([entity |-> "accounts", method |-> "list", auth |-> "true"])
  /\ KeyOf(heap, group, "detail", Id("1"))
       = Key([entity |-> "accounts", method |-> "detail", id |-> "1",
              auth |-> "changed"])

(***************************************************************************)
(* Claims about the normalize callbacks                                    *)
(***************************************************************************)
IsNormalize(call, op) == call.fn = "normalize" /\ call.op = op

\* C4: a create.normalize(data) step turns an absent list cache entry into
\* [data] and a present one into the old sequence with data appended last,
\* and sets the detail cache entry of data.id to data.
C4_CreateNormalize ==
  [][ IsNormalize(last', "create") =>
        LET data == Key(last'.data)
        IN /\ ListSlot \notin DOMAIN cache =>
                cache'[ListSlot] = Arr(<< data >>)
           /\ ListSlot \in DOMAIN cache =>
                cache'[ListSlot] = Arr(Append(cache[ListSlot].items, data))
           /\ DetailSlot(last'.data.id) \in DOMAIN cache'
           /\ cache'[DetailSlot(last'.data.id)] = data ]_vars

\* create.normalize has appended a second item to a one-item list
C4_Witness ==
  /\ IsNormalize(last, "create")
  /\ last.data = [id |-> "2", name |-> "new"]
  /\ ListSlot \in DOMAIN cache
  /\ cache[ListSlot]
       = Arr(<< Key([id |-> "1", name |-> "old"]),
                Key([id |-> "2", name |-> "new"]) >>)
  /\ cache[DetailSlot("2")] = Key([id |-> "2", name |-> "new"])

\* C5: an update.normalize(data) step on a present list cache entry replaces
\* every item whose id equals data.id by data, leaves every other item, the
\* order and the length unchanged, and sets the detail entry of data.id to data.
C5_UpdateNormalize ==
  [][ IsNormalize(last', "update") /\ ListSlot \in DOMAIN cache =>
        LET data == Key(last'.data)
            old == cache[ListSlot].items
            new == cache'[ListSlot].items
        IN /\ Len(new) = Len(old)
           /\ \A i \in 1..Len(old) :
                new[i] = IF old[i].k.id = last'.data.id THEN data ELSE old[i]
           /\ DetailSlot(last'.data.id) \in DOMAIN cache'
           /\ cache'[DetailSlot(last'.data.id)] = data ]_vars

\* update.normalize has replaced item 1 of a two-item list and kept item 2
C5_Witness ==
  /\ IsNormalize(last, "update")
  /\ last.data = [id |-> "1", name |-> "new"]
  /\ ListSlot \in DOMAIN cache
  /\ cache[ListSlot]
       = Arr(<< Key([id |-> "1", name |-> "new"]),
                Key([id |-> "2", name |-> "old"]) >>)
  /\ DetailSlot("2") \in DOMAIN cache
  /\ cache[DetailSlot("2")] = Key([id |-> "2", name |-> "old"])
  /\ cache[DetailSlot("1")] = Key([id |-> "1", name |-> "new"])

\* C6: after remove.normalize(data) the list cache entry holds no item whose
\* id is data.id and the detail cache entry of data.id is unset.
C6_RemoveClearsDetail ==
  IsNormalize(last, "remove") =>
    /\ ListSlot \in DOMAIN cache =>
         \A i \in 1..Len(cache[ListSlot].items) :
           cache[ListSlot].items[i].k.id # last.data.id
    /\ DetailSlot(last.data.id) \notin DOMAIN cache

\* C16: a step of update.normalize, remove.normalize or detail.normalize
\* taken while the list cache entry is absent leaves it absent, and the only
\* step that brings a list cache entry into existence is a create.normalize
\* step (the cache is empty initially).
C16_OnlyCreateMakesList ==
  [][ /\ ( /\ \E op \in {"update", "remove", "detail"} : IsNormalize(last', op)
           /\ ListSlot \notin DOMAIN cache )
         => ListSlot \notin DOMAIN cache'
      /\ (ListSlot \notin DOMAIN cache /\ ListSlot \in DOMAIN cache')
         => IsNormalize(last', "create") ]_vars

\* update.normalize on an empty cache: the detail entry is set, no list
\* entry appears
C16_Witness ==
  /\ IsNormalize(last, "update")
  /\ last.data = [id |-> "1", name |-> "new"]
  /\ ListSlot \notin DOMAIN cache
  /\ DetailSlot("1") \in DOMAIN cache
  /\ cache[DetailSlot("1")] = Key([id |-> "1", name |-> "new"])

\* C17: a detail.normalize(data) step replaces, in a present list cache
\* entry, every item whose id equals data.id by data and leaves the other
\* items as they were; it adds no cache entry and changes no entry other than
\* the list entry (no detail entry is written).
C17_DetailNormalize ==
  [][ IsNormalize(last', "detail") =>
        /\ DOMAIN cache' = DOMAIN cache
        /\ \A s \in DOMAIN cache : s # ListSlot => cache'[s] = cache[s]
        /\ ListSlot \in DOMAIN cache =>
             /\ Len(cache'[ListSlot].items) = Len(cache[ListSlot].items)
             /\ \A i \in 1..Len(cache[ListSlot].items) :
                  cache'[ListSlot].items[i]
                    = IF cache[ListSlot].items[i].k.id = last'.data.id
                        THEN Key(last'.data)
                        ELSE cache[ListSlot].items[i] ]_vars

\* detail.normalize has replaced item 1 of a two-item list; the detail entry
\* of id 1 still holds the item create.normalize put there
C17_Witness ==
  /\ IsNormalize(last, "detail")
  /\ last.data = [id |-> "1", name |-> "new"]
  /\ ListSlot \in DOMAIN cache
  /\ cache[ListSlot]
       = Arr(<< Key([id |-> "1", name |-> "new"]),
                Key([id |-> "2", name |-> "old"]) >>)
  /\ DetailSlot("1") \in DOMAIN cache
  /\ cache[DetailSlot("1")] = Key([id |-> "1", name |-> "old"])

\* the cache slots of the keys the factory gave the group
FactorySlots ==
  { QueryHash(FactoryKey(op, << >>)) : op \in StaticOps }
    \cup { QueryHash(FactoryKey(op, Id(i))) : op \in DynamicOps, i \in Ids }

\* C20: on an injected group, a normalize(data) step writes no cache slot
\* other than the slot of the group's current list.queryKey and the slot of
\* its current detail.queryKey(data.id), and no slot of a pre-injection key
\* is ever present in the cache.
C20_NormalizeWritesInjectedSlots ==
  [][ last'.fn = "normalize" /\ nInject = 1 =>
        /\ \A s \in DOMAIN cache' :
             (s \notin DOMAIN cache \/ cache'[s] # cache[s])
               => s \in {ListSlot, DetailSlot(last'.data.id)}
        /\ DOMAIN cache' \cap FactorySlots = {} ]_vars

\* create.normalize on the auth-injected accounts group
C20_Witness ==
  /\ nInject = 1
  /\ IsNormalize(last, "create")
  /\ DOMAIN cache
       = { [entity |-> "accounts", method |-> "list", auth |-> "true"],
           [entity |-> "accounts", method |-> "detail", id |-> "1",
            auth |-> "true"] }
  /\ cache[ListSlot] = Arr(<< Key([id |-> "1", name |-> "new"]) >>)
  /\ cache[DetailSlot("1")] = Key([id |-> "1", name |-> "new"])

\* C25: from an empty cache, after any sequence of create / update / remove
\* normalize calls in which create.normalize is never called with an id the
\* list holds, every item of the list cache entry equals the detail cache
\* entry of its id.
C25_ListItemsEqualDetail ==
  ListSlot \in DOMAIN cache =>
    \A i \in 1..Len(cache[ListSlot].items) :
      /\ DetailSlot(cache[ListSlot].items[i].k.id) \in DOMAIN cache
      /\ cache[DetailSlot(cache[ListSlot].items[i].k.id)] = cache[ListSlot].items[i]

\* two items created, the first updated since
C25_Witness ==
  /\ IsNormalize(last, "update")
  /\ ListSlot \in DOMAIN cache
  /\ cache[ListSlot]
       = Arr(<< Key([id |-> "1", name |-> "new"]),
                Key([id |-> "2", name |-> "old"]) >>)
  /\ cache[DetailSlot("1")] = Key([id |-> "1", name |-> "new"])
  /\ cache[DetailSlot("2")] = Key([id |-> "2", name |-> "old"])

\* the slots of the list key and of the detail(id) key of the operation
\* objects the factory created (held by `original`)
OwnListSlot == QueryHash(KeyOf(heap, original, "list", << >>))
OwnDetailSlot(id) == QueryHash(KeyOf(heap, original, "detail", Id(id)))

\* the slots a reader computes from the copy: a page of the paginated list,
\* the replaced detail
CopySlots ==
  { QueryHash(KeyOf(heap, group, "list", Id(i))) : i \in Ids }
    \cup { QueryHash(KeyOf(heap, group, "detail", Id(i))) : i \in Ids }

\* C26: a create / update / remove normalize call made through a spread copy
\* of the group whose list or detail was replaced writes no cache slot other
\* than the slot of the factory's own list key and the slot of the factory's
\* own detail(data.id) key; create puts its list there; the slots of the
\* copy's paginated list and of the copy's replaced detail are never written.
C26_NormalizeKeepsFactorySlots ==
  [][ last'.fn = "normalize" =>
        /\ \A s \in DOMAIN cache' :
             (s \notin DOMAIN cache \/ cache'[s] # cache[s])
               => s \in {OwnListSlot, OwnDetailSlot(last'.data.id)}
        /\ IsNormalize(last', "create") =>
             /\ OwnListSlot \in DOMAIN cache'
             /\ cache'[OwnDetailSlot(last'.data.id)] = Key(last'.data)
        /\ \A s \in CopySlots :
             s \notin {OwnListSlot} \cup { OwnDetailSlot(i) : i \in Ids }
               => s \notin DOMAIN cache' ]_vars

\* the copy with the paginated list, auth-injected: create.normalize wrote
\* the un-paginated list slot, page '1' of the copy's list has no entry
C26_Witness ==
  /\ IsNormalize(last, "create")
  /\ nInject = 1
  /\ heap[group.a].list # heap[original.a].list
  /\ KeyOf(heap, group, "list", Id("1"))
       = Key([entity |-> "accounts", method |-> "list", auth |-> "true",
              query |-> "1"])
  /\ QueryHash(KeyOf(heap, group, "list", Id("1"))) \notin DOMAIN cache
  /\ cache[[entity |-> "accounts", method |-> "list", auth |-> "true"]]
       = Arr(<< Key([id |-> "1", name |-> "new"]) >>)

\* the number of items of the list cache entry whose id is id
CountId(c, id) ==
  Len(SelectSeq(c[ListSlot].items, LAMBDA item : item.k.id = id))

\* C29: create.normalize(data) on a present list makes it exactly one item
\* longer whether or not an item with data.id is already in it, so the list
\* then holds one more item with that id than before; remove.normalize(data)
\* on a present list leaves no item with data.id, however many there were,
\* and keeps the other items in order.
C29_CreateAppendsRemoveDropsAll ==
  [][ (/\ last'.fn = "normalize"
       /\ ListSlot \in DOMAIN cache
       /\ IsArray(cache[ListSlot])) =>
        /\ last'.op = "create" =>
             /\ Len(cache'[ListSlot].items) = Len(cache[ListSlot].items) + 1
             /\ CountId(cache', last'.data.id) = CountId(cache, last'.data.id) + 1
        /\ last'.op = "remove" =>
             /\ CountId(cache', last'.data.id) = 0
             /\ cache'[ListSlot].items
                  = SelectSeq(cache[ListSlot].items,
                              LAMBDA item : item.k.id # last'.data.id) ]_vars

\* create.normalize called twice with id '1': the list holds two items with
\* that id
C29_Witness ==
  /\ IsNormalize(last, "create")
  /\ ListSlot \in DOMAIN cache
  /\ cache[ListSlot]
       = Arr(<< Key([id |-> "1", name |-> "old"]),
                Key([id |-> "1", name |-> "new"]) >>)
  /\ CountId(cache, "1") = 2

\* the cache slots a step creates or gives another value
ChangedSlots ==
  { s \in DOMAIN cache \cup DOMAIN cache' :
      \/ s \notin DOMAIN cache
      \/ s \notin DOMAIN cache'
      \/ cache[s] # cache'[s] }

\* C30: a create / update / remove normalize(data) step changes no cache slot
\* other than the group's list slot and its detail slot of data.id (at most
\* two slots): the detail entries of the other ids and the list and detail
\* entries of the other entity are what they were.
C30_NormalizeWritesTwoSlots ==
  [][ (last'.fn = "normalize" /\ last'.op \in {"create", "update", "remove"}) =>
        /\ ChangedSlots \subseteq {ListSlot, DetailSlot(last'.data.id)}
        /\ Cardinality(ChangedSlots) <= 2
        /\ \A i \in Ids \ {last'.data.id} :
             getQueryData(cache', KeyOf(heap, group, "detail", Id(i)))
               = getQueryData(cache, KeyOf(heap, group, "detail", Id(i)))
        /\ \A s \in {OtherListSlot} \cup {OtherDetailSlot(i) : i \in Ids} :
             s \in DOMAIN cache' /\ cache'[s] = cache[s] ]_vars

\* create.normalize of id '1' after id '2' was created, the other entity's
\* list and details being cached: both of the group's slots were written
C30_Witness ==
  /\ IsNormalize(last, "create")
  /\ last.data.id = "1"
  /\ ~last.threw
  /\ ListSlot \in DOMAIN cache /\ Len(cache[ListSlot].items) = 2
  /\ DetailSlot("1") \in DOMAIN cache
  /\ DetailSlot("2") \in DOMAIN cache
  /\ OtherListSlot \in DOMAIN cache /\ Len(cache[OtherListSlot].items) = 2
  /\ OtherListSlot # ListSlot
  /\ OtherDetailSlot("1") \in DOMAIN cache

(***************************************************************************)
(* Claims about the batch helpers                                          *)
(***************************************************************************)
\* the positions of the truthy entries of keys
TruthyPositions(keys) == { p \in 1..Len(keys) : keys[p].t \notin {"null", "undefined"} }

\* the position in keys of its j-th truthy entry
TruthyPosition(keys, j) ==
  CHOOSE p \in TruthyPositions(keys) :
    Cardinality({ q \in TruthyPositions(keys) : q <= p }) = j

\* C7: invalidateQueriesForKeys(keys, options) calls the engine's invalidate
\* once per truthy entry of keys, in input order (the j-th call is for the
\* j-th truthy entry), with no call for null / undefined entries and one call
\* per occurrence of a repeated key.
C7_InvalidateOncePerTruthyKey ==
  last.fn = "invalidateQueriesForKeys" =>
    /\ Len(engineCalls) = Cardinality(TruthyPositions(last.keys))
    /\ \A j \in 1..Len(engineCalls) :
         /\ engineCalls[j].method = "invalidateQueries"
         /\ "queryKey" \notin DOMAIN last.options =>
              engineCalls[j].filters.queryKey
                = << last.keys[TruthyPosition(last.keys, j)] >>

\* [list, list]: two calls, both for the list key
C7_Witness ==
  /\ last.fn = "invalidateQueriesForKeys"
  /\ last.keys = << KeyOf(heap, group, "list", << >>),
                    KeyOf(heap, group, "list", << >>) >>
  /\ Len(engineCalls) = 2
  /\ engineCalls[1] = engineCalls[2]
  /\ engineCalls[2].filters.queryKey = << KeyOf(heap, group, "list", << >>) >>

\* C8: cancelQueriesForKeys(keys) calls the engine's cancel once per truthy
\* entry of keys, in input order, with { queryKey: [key] } and nothing else,
\* and makes no call for null / undefined entries.
C8_CancelOncePerTruthyKey ==
  last.fn = "cancelQueriesForKeys" =>
    /\ Len(engineCalls) = Cardinality(TruthyPositions(last.keys))
    /\ \A j \in 1..Len(engineCalls) :
         engineCalls[j]
           = [method |-> "cancelQueries",
              filters |-> [queryKey |-> << last.keys[TruthyPosition(last.keys, j)] >>]]

\* [undefined, detail('1')]: one call, for the detail key
C8_Witness ==
  /\ last.fn = "cancelQueriesForKeys"
  /\ last.keys = << Undefined, KeyOf(heap, group, "detail", << Str("1") >>) >>
  /\ Len(engineCalls) = 1
  /\ engineCalls[1].filters.queryKey = << KeyOf(heap, group, "detail", << Str("1") >>) >>

\* C18: every invalidateQueries call invalidateQueriesForKeys(keys, options)
\* makes has as queryKey the single-element array of the corresponding truthy
\* entry of keys, and carries every other field of options, whatever options
\* is (an options object with a queryKey field included).
C18_InvalidateTargetsInputKey ==
  last.fn = "invalidateQueriesForKeys" =>
    \A j \in 1..Len(engineCalls) :
      /\ engineCalls[j].filters.queryKey
           = << last.keys[TruthyPosition(last.keys, j)] >>
      /\ \A f \in DOMAIN last.options \ {"queryKey"} :
           /\ f \in DOMAIN engineCalls[j].filters
           /\ engineCalls[j].filters[f] = last.options[f]

\* C23: when the engine raises at the call for the k-th truthy entry of keys,
\* the caller of invalidateQueriesForKeys / cancelQueriesForKeys gets the
\* engine's error itself, the engine has received exactly the calls for the
\* first k truthy entries, in order, and none for a later entry.
C23_EngineErrorPropagates ==
  last.fn \in {"invalidateQueriesForKeys", "cancelQueriesForKeys"} =>
    /\ last.threw = EngineError
    /\ last.raisedAt <= Cardinality(TruthyPositions(last.keys))
    /\ Len(engineCalls) = last.raisedAt
    /\ \A j \in 1..Len(engineCalls) :
         /\ engineCalls[j].method
              = IF last.fn = "cancelQueriesForKeys" THEN "cancelQueries"
                                                    ELSE "invalidateQueries"
         /\ (last.fn = "cancelQueriesForKeys" \/ "queryKey" \notin DOMAIN last.options) =>
              engineCalls[j].filters.queryKey
                = << last.keys[TruthyPosition(last.keys, j)] >>

\* [list, detail('1')], the engine raising at the first cancel: one call, for
\* the list key, none for the detail key
C23_Witness ==
  /\ last.fn = "cancelQueriesForKeys"
  /\ last.keys = << KeyOf(heap, group, "list", << >>),
                    KeyOf(heap, group, "detail", << Str("1") >>) >>
  /\ last.raisedAt = 1
  /\ last.threw = EngineError
  /\ engineCalls = << [method |-> "cancelQueries",
                       filters |-> [queryKey |-> << KeyOf(heap, group, "list", << >>) >>]] >>

(***************************************************************************)
(* Claims about the optimistic update pattern                              *)
(***************************************************************************)
\* C9: once onMutate has awaited cancelQueriesForKeys(keys) and then written
\* its optimistic value to the list slot (one of the keys), the slot is never
\* overwritten by a fetch that was in flight before the call.
C9_AwaitedCancelProtectsWrite ==
  pc = "written" => writer # "fetchBefore"


====
